---- MODULE Spec2Model ----
(***************************************************************************)
(* Model of conmon-rs/server/src/attach.rs: the attach hub                 *)
(* (SharedContainerAttach), the socket endpoint (Attach::create and        *)
(* Attach::start) and the per-connection read and write loops.             *)
(*                                                                         *)
(* The two tokio broadcast channels are modelled as append-only logs with  *)
(* one cursor per receiver; a receiver more than the channel's capacity    *)
(* behind the tail has lagged.  Every await of the source is a step of its *)
(* own, except where noted at the action.                                  *)
(***************************************************************************)
EXTENDS Integers, Sequences, FiniteSets, TLC

(***************************************************************************)
(* Program constants.                                                      *)
(***************************************************************************)
\* attach.rs:106  const PACKET_BUF_SIZE: usize = 8192
PACKET_BUF_SIZE == 8192
\* attach.rs:147  listen(fd, 10)
LISTEN_BACKLOG == 10
\* attach.rs:145  permissions.set_mode(0o700)
MODE_0700 == 448
\* attach.rs:265  Pipe::StdOut => 2
STDOUT_CODE == 2
\* attach.rs:266  Pipe::StdErr => 3
STDERR_CODE == 3
\* mode bits of a socket file created by bind(2) before the umask is applied
MODE_0777 == 511

(***************************************************************************)
(* Bounds of the model.                                                    *)
(***************************************************************************)
\* frame size of the interleaving specifications (SpecExactOut and
\* SpecExactIn run the same actions with PACKET_BUF_SIZE)
FrameSize == 3
\* capacity asked of broadcast::channel (1000 in the source, attach.rs:42-43)
ChannelCapacity == 1
\* Spec: the connections the clients open plus the write calls
MaxInputs == 1
\* SpecAdd: add calls, connections
MaxAdds == 2
MaxAddConns == 1
\* SpecLoops: the write calls plus the datagrams sent
MaxLoopMsgs == 2
\* SpecExactOut: write calls; SpecExactIn: datagrams sent
MaxExactWrites == 1
MaxExactSends == 2
\* SpecFault: the connections opened plus the write calls plus the datagrams
MaxFaultInputs == 2
\* SpecClone: the clones made plus the datagrams sent; the write calls
MaxCloneMsgs == 3
MaxCloneWrites == 1
\* SpecDone: the write calls
MaxDoneWrites == 2
\* SpecGone: the write calls
MaxGoneWrites == 3
\* SpecRead: the datagrams sent
MaxReadSends == 2
\* SpecFan: the write calls
MaxFanWrites == 2
\* SpecLag: the capacity asked of the channels, the write calls
LagChannelCapacity == 3
MaxLagWrites == 5
\* SpecIn: the connections opened plus the datagrams sent plus the clones made
MaxInInputs == 3

Pipes == {"StdOut", "StdErr"}

Min(a, b) == IF a < b THEN a ELSE b

Zeros(n) == [i \in 1..n |-> 0]

(***************************************************************************)
(* State                                                                   *)
(***************************************************************************)
VARIABLES
    cap,      \* the capacity of each of the two broadcast channels
    token,    \* the CancellationToken: TRUE once cancelled
    fs,       \* path -> mode of the socket file, or NoFile
    socks,    \* one record per socket fd that socket() returned
    conns,    \* one record per connection a client opened
    outLog,   \* every value sent on write_half_tx, oldest first
    inLog,    \* every value sent on read_half_tx, oldest first
    hubs,     \* one record per SharedContainerAttach handle
    adds,     \* history: the result of every add call
    wres,     \* history: the write call that finished last
    nsent     \* history: datagrams sent by the clients

vars == <<cap, token, fs, socks, conns, outLog, inLog, hubs, adds, wres, nsent>>

(***************************************************************************)
(* tokio::sync::broadcast                                                  *)
(***************************************************************************)
RECURSIVE Pow2AtLeast(_, _)
Pow2AtLeast(p, n) == IF p >= n THEN p ELSE Pow2AtLeast(2 * p, n)

\* broadcast::channel(capacity) sizes its ring buffer capacity.next_power_of_two()
next_power_of_two(n) == Pow2AtLeast(1, n)

\* the number of values a channel retains
Capacity == cap

\* Receiver::recv: the receiver's next value has been overwritten
LaggedAtCapacity(next, tail) == tail - next >= Capacity
Lagged(next, tail) == tail - next > Capacity

\* Receiver::recv after a lag: the cursor moves to the oldest retained value
OldestRetained(tail) == tail - Capacity

(***************************************************************************)
(* Framing (write_loop, attach.rs:260-272)                                 *)
(***************************************************************************)
\* match pipe { Pipe::StdOut => 2, Pipe::StdErr => 3 }
PipeCodeZeroBased(pipe) == IF pipe = "StdOut" THEN 0 ELSE 1
PipeCode(pipe) == IF pipe = "StdOut" THEN STDOUT_CODE ELSE STDERR_CODE

\* slice::chunks(n): consecutive chunks of n elements, the last one shorter;
\* no chunk at all for an empty slice
Chunks(buf, n) ==
    LET k == (Len(buf) + n - 1) \div n
    IN  [j \in 1..k |-> SubSeq(buf, (j - 1) * n + 1, Min(j * n, Len(buf)))]

\* Vec::resize(n, 0): cut to n elements or pad with zeros up to n
Resize(y, n) == SubSeq(y \o Zeros(n), 1, n)

\* y = x.to_vec(); y.insert(0, p); y.resize(PACKET_BUF_SIZE, 0)
Packet(pipe, x, sz) == Resize(<<PipeCode(pipe)>> \o x, sz)

\* buf.chunks(PACKET_BUF_SIZE - 1).map(..).collect()
PacketsLastFirst(pipe, buf, sz) ==
    LET ch == Chunks(buf, sz - 1)
    IN  [j \in 1..Len(ch) |-> Packet(pipe, ch[Len(ch) + 1 - j], sz)]
PacketsOfFullChunks(pipe, buf, sz) ==
    LET ch == Chunks(buf, sz) IN [j \in 1..Len(ch) |-> Packet(pipe, ch[j], sz)]
Packets(pipe, buf, sz) ==
    LET ch == Chunks(buf, sz - 1) IN [j \in 1..Len(ch) |-> Packet(pipe, ch[j], sz)]

\* DONE_PACKET: &[0; PACKET_BUF_SIZE]
DonePacketTagged(sz) == Resize(<<STDOUT_CODE>>, sz)
DonePacket(sz) == Zeros(sz)

(***************************************************************************)
(* Inbound buffer (read_loop, attach.rs:212-219)                           *)
(***************************************************************************)
\* the number of bytes read() returns
ReadCount(buf, d) == Min(Len(d), Len(buf))

\* read(&mut buf) of one SOCK_SEQPACKET datagram d into buf: d's first
\* Len(buf) bytes overwrite the start of buf, the rest of d is discarded
ReadInto(buf, d) ==
    SubSeq(d, 1, ReadCount(buf, d)) \o SubSeq(buf, ReadCount(buf, d) + 1, Len(buf))

\* buf.iter().position(|&x| x == 0): 0-based index of the first zero, or
\* -1 for None
first_zero_idx(buf) ==
    LET Z == {i \in 1..Len(buf) : buf[i] = 0}
    IN  IF Z = {} THEN -1 ELSE (CHOOSE i \in Z : \A j \in Z : i <= j) - 1

\* if let Some(first_zero_idx) = .. { buf.resize(first_zero_idx, 0) }
TruncateAfterZero(buf) ==
    IF first_zero_idx(buf) < 0 THEN buf ELSE Resize(buf, first_zero_idx(buf) + 1)
Truncate(buf) ==
    IF first_zero_idx(buf) < 0 THEN buf ELSE Resize(buf, first_zero_idx(buf))

(***************************************************************************)
(* Socket file modes                                                       *)
(***************************************************************************)
RECURSIVE AndNot(_, _, _)
\* a & !b over the low `bits` bits
AndNot(a, b, bits) ==
    IF bits = 0 THEN 0
    ELSE (IF a % 2 = 1 /\ b % 2 = 0 THEN 1 ELSE 0)
         + 2 * AndNot(a \div 2, b \div 2, bits - 1)

\* bind(2) creates the socket file with mode 0777 & ~umask
BindMode(umask) == AndNot(MODE_0777, umask, 9)

\* connect(2) needs write permission on the socket file: the owner's write
\* bit for the owner, the others' write bit for another local user
CanConnect(mode, user) ==
    IF user = "owner" THEN (mode \div 128) % 2 = 1 ELSE (mode \div 2) % 2 = 1

NoFile == -1
Paths == {"a.sock", "b.sock"}
\* 0o000, 0o022, 0o077
Umasks == {0, 18, 63}
Users == {"owner", "other"}

ConnIds == 1..Len(conns)
SockIds == 1..Len(socks)
HubIds == 1..Len(hubs)

\* the write loop of c holds its Receiver
WlAlive(c) == conns[c].wl \in {"idle", "drain"}
RlAlive(c) == conns[c].rl = "run"
WlEnded(c) == conns[c].wl \notin {"none", "idle", "drain"}
RlEnded(c) == conns[c].rl \notin {"none", "run"}

\* Sender::receiver_count on write_half_tx: one Receiver per live write loop
\* (SharedContainerAttach::default drops the channel's first Receiver)
receiver_count_connected ==
    Cardinality({c \in ConnIds : WlAlive(c) /\ conns[c].cli = "open"})
receiver_count == Cardinality({c \in ConnIds : WlAlive(c)})

\* receivers of read_half_tx: one read_half_rx per live hub handle
in_receiver_count == Cardinality({h \in HubIds : hubs[h].alive})

NoRead == [kind |-> "none", val |-> <<>>, pos |-> 0, behind |-> 0]

\* n counts the finished calls; cntSend is -1 when the call did not reach send
NoWrite ==
    [n |-> 0, cntCheck |-> 0, cntSend |-> -1, res |-> "none", pos |-> 0,
     conn |-> {}, subs |-> {}, hub |-> 0]

\* born, got and lagged are history: the channel's tail when the handle's
\* subscription was made, the positions its reads returned, whether a read
\* of it has reported a lag
NewHub(next) ==
    [alive |-> TRUE, next |-> next, pc |-> "idle", pipe |-> "StdOut",
     buf |-> <<>>, cnt |-> 0, conn |-> {}, subs |-> {}, last |-> NoRead,
     born |-> Len(inLog), got |-> <<>>, lagged |-> FALSE]

\* SharedContainerAttach::default(): two empty channels, one handle
Init ==
    /\ cap = next_power_of_two(ChannelCapacity)
    /\ token = FALSE
    /\ fs = [p \in Paths |-> NoFile]
    /\ socks = <<>>
    /\ conns = <<>>
    /\ outLog = <<>>
    /\ inLog = <<>>
    /\ hubs = <<NewHub(0)>>
    /\ adds = <<>>
    /\ wres = NoWrite
    /\ nsent = 0

(***************************************************************************)
(* SharedContainerAttach                                                   *)
(***************************************************************************)
\* Clone: a new subscription at the tail of the inbound channel, the same
\* two senders
\* read_half_rx: self.read_half_tx.subscribe()
CloneCursorOfOriginal(h) == hubs[h].next
CloneCursor(h) == Len(inLog)

HubClone(h) ==
    /\ h \in HubIds /\ hubs[h].alive
    /\ hubs' = Append(hubs, NewHub(CloneCursor(h)))
    /\ UNCHANGED <<cap, token, fs, socks, conns, outLog, inLog, adds, wres, nsent>>

\* a handle is dropped: its read_half_rx and its two senders go
HubDrop(h) ==
    /\ h \in HubIds /\ hubs[h].alive /\ hubs[h].pc = "idle"
    /\ hubs' = [hubs EXCEPT ![h].alive = FALSE]
    /\ UNCHANGED <<cap, token, fs, socks, conns, outLog, inLog, adds, wres, nsent>>

AddOutcomes ==
    {"ok", "socket", "shorten", "addr", "bind", "metadata", "listen"}

NewSock(path, st, task) ==
    [path |-> path, st |-> st, task |-> task, backlog |-> <<>>, cur |-> 0]

\* add -> Attach::create.  `fail` names the step the environment lets fail.
\* The raw fd is never closed on an error path; permissions.set_mode(0o700)
\* changes the local Permissions value only, nothing writes it back.
Add(h, path, umask, fail) ==
    /\ h \in HubIds /\ hubs[h].alive
    /\ IF fs[path] # NoFile
       THEN /\ adds' = Append(adds, [path |-> path, res |-> "exists"])
            /\ UNCHANGED <<fs, socks>>
       ELSE /\ adds' = Append(adds, [path |-> path, res |-> fail])
            /\ CASE fail = "socket" -> UNCHANGED <<fs, socks>>
                 [] fail \in {"shorten", "addr", "bind"} ->
                      /\ socks' = Append(socks, NewSock(path, "open", "none"))
                      /\ UNCHANGED fs
                 [] fail \in {"metadata", "listen"} ->
                      /\ socks' = Append(socks, NewSock(path, "bound", "none"))
                      /\ fs' = [fs EXCEPT ![path] = BindMode(umask)]
                 [] OTHER ->
                      /\ socks' = Append(socks, NewSock(path, "listening", "start"))
                      /\ fs' = [fs EXCEPT ![path] = BindMode(umask)]
    /\ UNCHANGED <<cap, token, conns, outLog, inLog, hubs, wres, nsent>>

\* read: recv on read_half_rx.  Suspends while nothing is pending.
HubRead(h) ==
    /\ h \in HubIds /\ hubs[h].alive
    /\ LET next == hubs[h].next
           tail == Len(inLog)
       IN  IF Lagged(next, tail)
           THEN hubs' = [hubs EXCEPT
                    ![h].next = OldestRetained(tail),
                    ![h].lagged = TRUE,
                    ![h].last = [kind |-> "err", val |-> <<>>, pos |-> next + 1,
                                 behind |-> tail - next]]
           ELSE /\ next < tail
                /\ hubs' = [hubs EXCEPT
                    ![h].next = next + 1,
                    ![h].got = Append(@, next + 1),
                    ![h].last = [kind |-> "ok", val |-> inLog[next + 1].buf,
                                 pos |-> next + 1, behind |-> tail - next]]
    /\ UNCHANGED <<cap, token, fs, socks, conns, outLog, inLog, adds, wres, nsent>>

WriteRecord(h, cntSend, res, pos) ==
    [n |-> wres.n + 1, cntCheck |-> hubs[h].cnt, cntSend |-> cntSend,
     res |-> res, pos |-> pos, conn |-> hubs[h].conn, subs |-> hubs[h].subs,
     hub |-> h]

\* write, first step: if self.write_half_tx.receiver_count() > 0
WriteCheck(h, pipe, buf) ==
    /\ h \in HubIds /\ hubs[h].alive /\ hubs[h].pc = "idle"
    /\ IF receiver_count > 0
       THEN /\ hubs' = [hubs EXCEPT
                   ![h].pc = "send", ![h].pipe = pipe, ![h].buf = buf,
                   ![h].cnt = receiver_count,
                   ![h].conn = ConnIds,
                   ![h].subs = {c \in ConnIds : WlAlive(c)}]
            /\ UNCHANGED wres
       ELSE /\ UNCHANGED hubs
            /\ wres' = [n |-> wres.n + 1, cntCheck |-> 0, cntSend |-> -1,
                        res |-> "ok", pos |-> 0, conn |-> ConnIds,
                        subs |-> {c \in ConnIds : WlAlive(c)}, hub |-> h]
    /\ UNCHANGED <<cap, token, fs, socks, conns, outLog, inLog, adds, nsent>>

\* write, second step: self.write_half_tx.send(..), an error when no Receiver
\* is left
WriteSend(h) ==
    /\ h \in HubIds /\ hubs[h].pc = "send"
    /\ IF receiver_count = 0
       THEN /\ wres' = WriteRecord(h, 0, "err", 0)
            /\ UNCHANGED outLog
       ELSE /\ outLog' = Append(outLog, [pipe |-> hubs[h].pipe, buf |-> hubs[h].buf])
            /\ wres' = WriteRecord(h, receiver_count, "ok", Len(outLog) + 1)
    /\ hubs' = [hubs EXCEPT ![h].pc = "idle"]
    /\ UNCHANGED <<cap, token, fs, socks, conns, inLog, adds, nsent>>

\* the owner of the token cancels it
Cancel ==
    /\ ~token
    /\ token' = TRUE
    /\ UNCHANGED <<cap, fs, socks, conns, outLog, inLog, hubs, adds, wres, nsent>>

(***************************************************************************)
(* Clients                                                                 *)
(***************************************************************************)
NewConn(e, user) ==
    [ep |-> e, user |-> user, cli |-> "open", c2s |-> <<>>,
     rl |-> "none", wl |-> "none", bye |-> "none",
     packets |-> <<>>, idx |-> 0, next |-> 0, subAt |-> 0,
     recvd |-> <<>>, dropped |-> FALSE, rerr |-> "none",
     wout |-> "none"]

\* connect(2) returns once the connection is queued in the listen backlog,
\* before the accept loop has seen it.  listen(fd, 10): the queue of a Linux
\* socket takes one connection more than the backlog it was given; connect
\* is refused once the listening socket is closed.
ClientConnect(e, user) ==
    /\ e \in SockIds /\ socks[e].st = "listening"
    /\ Len(socks[e].backlog) <= LISTEN_BACKLOG
    /\ CanConnect(fs[socks[e].path], user)
    /\ conns' = Append(conns, NewConn(e, user))
    /\ socks' = [socks EXCEPT ![e].backlog = Append(@, Len(conns) + 1)]
    /\ UNCHANGED <<cap, token, fs, outLog, inLog, hubs, adds, wres, nsent>>

\* the client sends one datagram
ClientSend(c, d) ==
    /\ c \in ConnIds /\ conns[c].cli = "open"
    /\ conns' = [conns EXCEPT ![c].c2s = Append(@, d)]
    /\ nsent' = nsent + 1
    /\ UNCHANGED <<cap, token, fs, socks, outLog, inLog, hubs, adds, wres>>

\* the client closes its end
ClientClose(c) ==
    /\ c \in ConnIds /\ conns[c].cli = "open"
    /\ conns' = [conns EXCEPT ![c].cli = "closed"]
    /\ UNCHANGED <<cap, token, fs, socks, outLog, inLog, hubs, adds, wres, nsent>>

(***************************************************************************)
(* Attach::start: the accept loop                                          *)
(***************************************************************************)
\* UnixListener::from_std(..)?: on an error the task ends here and drops the
\* std listener, which closes the listening socket and resets the
\* connections queued on it; the socket file stays
StartListener(e, ok) ==
    /\ e \in SockIds /\ socks[e].task = "start"
    /\ IF ok
       THEN /\ socks' = [socks EXCEPT ![e].task = "accept"]
            /\ UNCHANGED conns
       ELSE /\ socks' = [socks EXCEPT ![e].task = "exited", ![e].st = "closed",
                                      ![e].backlog = <<>>]
            /\ conns' = [c \in DOMAIN conns |->
                            IF \E i \in DOMAIN socks[e].backlog : socks[e].backlog[i] = c
                            THEN [conns[c] EXCEPT !.cli = "reset"]
                            ELSE conns[c]]
    /\ UNCHANGED <<cap, token, fs, outLog, inLog, hubs, adds, wres, nsent>>

\* write_half_tx.subscribe(): the new Receiver starts at the channel's tail
SubscribeOldest(tail) == 0
Subscribe(tail) == tail

\* listener.accept() returned Ok: split the stream and spawn the read loop,
\* which runs from here on, on any worker thread.  Nothing in the loop looks
\* at the token.
Accept(e) ==
    /\ e \in SockIds /\ socks[e].task = "accept"
    /\ socks[e].backlog # <<>>
    /\ conns' = [conns EXCEPT ![Head(socks[e].backlog)].rl = "run"]
    /\ socks' = [socks EXCEPT ![e].task = "spawned",
                              ![e].cur = Head(socks[e].backlog),
                              ![e].backlog = Tail(@)]
    /\ UNCHANGED <<cap, token, fs, outLog, inLog, hubs, adds, wres, nsent>>

\* the accept task goes on: write_half_tx.subscribe(), spawn the write loop,
\* back to listener.accept()
AcceptSubscribe(e) ==
    /\ e \in SockIds /\ socks[e].task = "spawned"
    /\ conns' = [conns EXCEPT
           ![socks[e].cur].wl = "idle",
           ![socks[e].cur].next = Subscribe(Len(outLog)),
           ![socks[e].cur].subAt = Len(outLog)]
    /\ socks' = [socks EXCEPT ![e].task = "accept", ![e].cur = 0]
    /\ UNCHANGED <<cap, token, fs, outLog, inLog, hubs, adds, wres, nsent>>

\* listener.accept() returned Err: logged, the loop goes on
AcceptError(e) ==
    /\ e \in SockIds /\ socks[e].task = "accept"
    /\ UNCHANGED vars

\* how a loop can end with an error
FatalStates ==
    {"fatal_send", "fatal_ebadfd", "fatal_nocode", "fatal_recv", "fatal_write",
     "fatal_done", "panic"}

\* if let Err(e) = Self::read_loop(..).await { error!(..) }, and the same
\* for write_loop: the result of a loop that has moved to state st ends at
\* its own task (tokio catches a panic there too); the accept loop that
\* spawned it goes on
LoopResultEndsAccept(c, st) ==
    [socks EXCEPT ![conns[c].ep].task = IF st \in FatalStates THEN "exited" ELSE @]
LoopResult(c, st) == socks

(***************************************************************************)
(* Attach::read_loop                                                       *)
(***************************************************************************)
ReadErrors == {"EIO", "EBADF", "EAGAIN", "EINTR", "NoCode"}

\* the read branch of the select: one datagram read
\* (sz is the buffer size, vec![0; PACKET_BUF_SIZE])
ReadData(c, sz) ==
    /\ c \in ConnIds /\ RlAlive(c)
    /\ conns[c].c2s # <<>>
    /\ LET d == Head(conns[c].c2s)
           n == ReadCount(Zeros(sz), d)
           buf == Truncate(ReadInto(Zeros(sz), d))
       IN  IF n > 0
           THEN IF in_receiver_count = 0
                THEN \* tx.send(buf).context("send data message")?
                     /\ conns' = [conns EXCEPT ![c].c2s = Tail(@), ![c].rl = "fatal_send"]
                     /\ UNCHANGED inLog
                ELSE /\ conns' = [conns EXCEPT ![c].c2s = Tail(@)]
                     /\ inLog' = Append(inLog, [buf |-> buf, src |-> d, conn |-> c])
           ELSE /\ conns' = [conns EXCEPT ![c].c2s = Tail(@)]
                /\ UNCHANGED inLog
    /\ socks' = LoopResult(c, conns'[c].rl)
    /\ UNCHANGED <<cap, token, fs, outLog, hubs, adds, wres, nsent>>

\* read returned Ok(0): the peer has closed and nothing is queued
ReadEof(c) ==
    /\ c \in ConnIds /\ RlAlive(c)
    /\ conns[c].c2s = <<>> /\ conns[c].cli = "closed"
    /\ conns' = [conns EXCEPT ![c].rerr = "eof"]
    /\ UNCHANGED <<cap, token, fs, socks, outLog, inLog, hubs, adds, wres, nsent>>

\* what the loop does on Err(e), by e's OS error code ("NoCode": an error
\* whose raw_os_error() is None)
ReadErrorExitEioLogged(err) ==
    CASE err = "EBADF" -> "fatal_ebadfd"
      [] err = "NoCode" -> "fatal_nocode"
      [] OTHER -> "run"
ReadErrorExit(err) ==
    CASE err = "EIO" -> "done_eio"
      [] err = "EBADF" -> "fatal_ebadfd"
      [] err = "NoCode" -> "fatal_nocode"
      [] OTHER -> "run"

ReadError(c, err) ==
    /\ c \in ConnIds /\ RlAlive(c)
    /\ conns' = [conns EXCEPT ![c].rl = ReadErrorExit(err), ![c].rerr = err]
    /\ socks' = LoopResult(c, conns'[c].rl)
    /\ UNCHANGED <<cap, token, fs, outLog, inLog, hubs, adds, wres, nsent>>

\* the select's second branch is ready once the token is cancelled
CancelReady(tok) == tok

\* _ = token.cancelled() => return Ok(())
ReadCancelled(c) ==
    /\ c \in ConnIds /\ RlAlive(c)
    /\ CancelReady(token)
    /\ conns' = [conns EXCEPT ![c].rl = "done"]
    /\ UNCHANGED <<cap, token, fs, socks, outLog, inLog, hubs, adds, wres, nsent>>

(***************************************************************************)
(* Attach::write_loop                                                      *)
(***************************************************************************)
WriteOutcomes == {"Ok", "WouldBlock", "BrokenPipe", "Other"}

\* a write to a live peer does not fail with EPIPE, and a write to a peer
\* that is gone does not succeed: it fails with EPIPE, or, when the peer
\* closed with frames left unread, with ECONNRESET, one of the "Other" errors
WritePossible(c, out) ==
    /\ out = "Ok" => conns[c].cli = "open"
    /\ out = "BrokenPipe" => conns[c].cli = "closed"

\* res = rx.recv(): `panics` is the build's overflow-checks setting, which
\* decides what packets.len() - 1 does for an empty packets
WriteRecv(c, sz, panics) ==
    /\ c \in ConnIds /\ conns[c].wl = "idle"
    /\ LET next == conns[c].next
           tail == Len(outLog)
       IN  IF Lagged(next, tail)
           THEN \* let (pipe, buf) = res?
                conns' = [conns EXCEPT ![c].wl = "fatal_recv",
                                       ![c].next = OldestRetained(tail)]
           ELSE /\ next < tail
                /\ LET m == outLog[next + 1]
                       packets == Packets(m.pipe, m.buf, sz)
                   IN  IF Len(packets) = 0
                       THEN conns' = [conns EXCEPT
                                ![c].next = next + 1,
                                ![c].wl = IF panics THEN "panic" ELSE "idle"]
                       ELSE conns' = [conns EXCEPT
                                ![c].next = next + 1, ![c].wl = "drain",
                                ![c].packets = packets, ![c].idx = 0]
    /\ socks' = LoopResult(c, conns'[c].wl)
    /\ UNCHANGED <<cap, token, fs, outLog, inLog, hubs, adds, wres, nsent>>

\* where the for loop stands after frame idx of n frames had outcome `out`
AfterWriteWouldBlockBreaks(out, idx, n) ==
    CASE out = "Other" -> "fatal_write"
      [] out \in {"BrokenPipe", "WouldBlock"} -> "idle"
      [] OTHER -> IF idx + 1 = n THEN "idle" ELSE "drain"
AfterWrite(out, idx, n) ==
    CASE out = "Other" -> "fatal_write"
      [] out = "BrokenPipe" -> "idle"
      [] OTHER -> IF idx + 1 = n THEN "idle" ELSE "drain"

\* write_half.write(packet).await for the frame at idx
WriteFrame(c, out) ==
    /\ c \in ConnIds /\ conns[c].wl = "drain"
    /\ WritePossible(c, out)
    /\ LET cn == conns[c]
           to == AfterWrite(out, cn.idx, Len(cn.packets))
       IN  conns' = [conns EXCEPT
               ![c].wl = to,
               ![c].idx = IF to = "drain" THEN cn.idx + 1 ELSE 0,
               ![c].packets = IF to = "drain" THEN cn.packets ELSE <<>>,
               ![c].recvd = IF out = "Ok" THEN Append(@, cn.packets[cn.idx + 1]) ELSE @,
               ![c].dropped = @ \/ out # "Ok",
               ![c].wout = out]
    /\ socks' = LoopResult(c, conns'[c].wl)
    /\ UNCHANGED <<cap, token, fs, outLog, inLog, hubs, adds, wres, nsent>>

\* how the loop ends after the Done frame's write had outcome `out`
AfterDone(out) == IF out = "Other" THEN "fatal_done" ELSE "done"

\* _ = token.cancelled() => write DONE_PACKET, then return
WriteCancelled(c, out, sz) ==
    /\ c \in ConnIds /\ conns[c].wl = "idle"
    /\ CancelReady(token)
    /\ WritePossible(c, out)
    /\ conns' = [conns EXCEPT
           ![c].wl = AfterDone(out),
           ![c].bye = out,
           ![c].recvd = IF out = "Ok" THEN Append(@, DonePacket(sz)) ELSE @]
    /\ socks' = LoopResult(c, conns'[c].wl)
    /\ UNCHANGED <<cap, token, fs, outLog, inLog, hubs, adds, wres, nsent>>

(***************************************************************************)
(* Inputs                                                                  *)
(***************************************************************************)
\* len bytes, none of them zero: k, k + 1, .. skipping the zeros
NonZero(len, k) == [i \in 1..len |-> ((i + k - 2) % 255) + 1]

InFlight == Cardinality({h \in HubIds : hubs[h].pc = "send"})

\* the state after add has returned Ok for each path of the sequence `order`
\* under the default umask 0o022 and each accept loop has built its listener,
\* with the connections cs
\* the connections of cs that wait in the listen backlog of endpoint e: those
\* on e whose loops have not been spawned
Queued(e, cs) ==
    SelectSeq([c \in 1..Len(cs) |-> c],
              LAMBDA c : cs[c].ep = e /\ cs[c].rl = "none")

InitChan(order, cs, capacity) ==
    /\ cap = next_power_of_two(capacity)
    /\ token = FALSE
    /\ fs = [p \in Paths |->
               IF \E i \in DOMAIN order : order[i] = p THEN BindMode(18) ELSE NoFile]
    /\ socks = [i \in DOMAIN order |->
                  [NewSock(order[i], "listening", "accept") EXCEPT
                      !.backlog = Queued(i, cs)]]
    /\ adds = [i \in DOMAIN order |-> [path |-> order[i], res |-> "ok"]]
    /\ conns = cs
    /\ outLog = <<>>
    /\ inLog = <<>>
    /\ hubs = <<NewHub(0)>>
    /\ wres = NoWrite
    /\ nsent = 0

InitWith(order, cs) == InitChan(order, cs, ChannelCapacity)

\* no client has connected yet
InitListening(order) == InitWith(order, <<>>)

\* one client has connected to the first endpoint and the accept loop has
\* spawned its two loops
InitAttached(order) ==
    InitWith(order, <<[NewConn(1, "owner") EXCEPT !.rl = "run", !.wl = "idle"]>>)

\* two clients have connected to the first endpoint and have been accepted
InitAttachedTwoConns ==
    <<[NewConn(1, "owner") EXCEPT !.rl = "run", !.wl = "idle"],
      [NewConn(1, "owner") EXCEPT !.rl = "run", !.wl = "idle"]>>

InitAttachedTwo(order) == InitWith(order, InitAttachedTwoConns)

(***************************************************************************)
(* Spec: the outbound side.  One hub handle, two endpoints, the clients'   *)
(* connections, write and the write loops, cancellation.                   *)
(***************************************************************************)
\* what write is called with: one frame of stdout, two frames of stderr
WriteInputs(sz) ==
    {[pipe |-> "StdOut", buf |-> NonZero(1, 7)],
     [pipe |-> "StdErr", buf |-> NonZero(sz, 1)]}

\* what write is called with: one frame, two frames, and the empty buffer
GoneInputs ==
    WriteInputs(FrameSize) \cup {[pipe |-> "StdOut", buf |-> <<>>]}

\* one client is attached to the first endpoint, another has connected to
\* the second and waits in its backlog
InitSpec ==
    InitWith(<<"a.sock", "b.sock">>,
             <<[NewConn(1, "owner") EXCEPT !.rl = "run", !.wl = "idle"],
               NewConn(2, "owner")>>)

\* connections opened and write calls issued since
Inputs == Len(conns) - 2 + wres.n + InFlight

Next ==
    \/ \E e \in SockIds : Inputs < MaxInputs /\ ClientConnect(e, "owner")
    \/ \E e \in SockIds : Accept(e)
    \/ \E e \in SockIds : AcceptSubscribe(e)
    \/ \E c \in ConnIds : ClientClose(c)
    \/ Inputs < MaxInputs /\ WriteCheck(1, "StdOut", NonZero(1, 7))
    \/ WriteSend(1)
    \/ \E c \in ConnIds, panics \in BOOLEAN : WriteRecv(c, FrameSize, panics)
    \/ \E c \in ConnIds, out \in WriteOutcomes : WriteFrame(c, out)
    \/ \E c \in ConnIds, out \in WriteOutcomes : WriteCancelled(c, out, FrameSize)
    \/ Cancel

Spec == InitSpec /\ [][Next]_vars

(***************************************************************************)
(* Claims checked under Spec                                               *)
(***************************************************************************)
RECURSIVE FramesOf(_, _, _)
\* the frames of outLog[lo..hi], in order
FramesOf(lo, hi, sz) ==
    IF lo > hi THEN <<>>
    ELSE FramesOf(lo, hi - 1, sz) \o Packets(outLog[hi].pipe, outLog[hi].buf, sz)

\* the frames of the buffer being drained that are still to be written
Rest(c) ==
    IF conns[c].wl = "drain"
    THEN SubSeq(conns[c].packets, conns[c].idx + 1, Len(conns[c].packets))
    ELSE <<>>

\* C2 as stated: a write call that met zero subscribed write loops, at its
\* check or at its send, returns success and publishes nothing.
C2_WriteOkWithoutSubscribers ==
    (wres.res # "none" /\ (wres.cntCheck = 0 \/ wres.cntSend = 0)) =>
        (wres.res = "ok" /\ wres.pos = 0)

\* C6 as stated: once the token is cancelled no connection is accepted, so
\* no read loop and no write loop is spawned.
C6_NoAcceptAfterCancel ==
    [][token => \A c \in ConnIds :
                  conns[c].rl = "none" => conns'[c].rl = "none"]_vars

(***************************************************************************)
(* SpecFan: fan-out.  One client is attached to the first endpoint, a      *)
(* second has connected to the other endpoint and is accepted and          *)
(* subscribed at any moment of the write calls; buffers of one and of two  *)
(* frames, the empty buffer; every write of a frame has every outcome.     *)
(***************************************************************************)
NextFan ==
    \/ \E e \in SockIds : Accept(e)
    \/ \E e \in SockIds : AcceptSubscribe(e)
    \/ \E c \in ConnIds : ClientClose(c)
    \/ \E m \in GoneInputs :
          wres.n + InFlight < MaxFanWrites /\ WriteCheck(1, m.pipe, m.buf)
    \/ WriteSend(1)
    \/ \E c \in ConnIds, panics \in BOOLEAN : WriteRecv(c, FrameSize, panics)
    \/ \E c \in ConnIds, out \in WriteOutcomes : WriteFrame(c, out)

SpecFan == InitSpec /\ [][NextFan]_vars

\* C1 as amended: a write call issued after the accept loop has subscribed a
\* client's write loop (not merely after the client's connect has returned)
\* is published to that subscription, and what the write loop has taken from
\* its subscription has reached the client as the buffers' frames (while the
\* loop runs, has not lagged and no frame write has failed).
C1_FanOutAfterSubscribe ==
    \A c \in ConnIds :
        (WlAlive(c) /\ ~Lagged(conns[c].next, Len(outLog))) =>
            /\ (wres.res # "none" /\ c \in wres.subs) =>
                  (wres.res = "ok" /\ wres.pos > conns[c].subAt)
            /\ ~conns[c].dropped =>
                  conns[c].recvd \o Rest(c)
                      = FramesOf(conns[c].subAt + 1, conns[c].next, FrameSize)

\* two clients on different endpoints: the second was subscribed after a
\* first buffer had been published; a write of a two-frame buffer issued
\* with both subscribed has reached both, the first client after the frames
\* of the first buffer, the second client as all it has received
C1_Witness ==
    /\ Len(conns) = 2 /\ conns[1].ep # conns[2].ep
    /\ Len(outLog) = 2 /\ outLog[1].buf # <<>> /\ Len(outLog[2].buf) = FrameSize
    /\ wres.res = "ok" /\ wres.pos = 2 /\ wres.subs = {1, 2}
    /\ conns[1].subAt = 0 /\ conns[2].subAt = 1
    /\ \A c \in {1, 2} :
          /\ conns[c].wl = "idle" /\ conns[c].next = 2 /\ ~conns[c].dropped
          /\ conns[c].recvd = FramesOf(conns[c].subAt + 1, 2, FrameSize)
    /\ Len(conns[1].recvd) = Len(conns[2].recvd) + 1 /\ Len(conns[2].recvd) = 2

\* C1 as stated: a write call issued after a client's connect has returned is
\* published to that client's write loop, whenever the accept loop subscribes it.
C1_FanOutAfterConnect ==
    \A c \in ConnIds :
        (WlAlive(c) /\ wres.res # "none" /\ c \in wres.conn) =>
            (wres.res = "ok" /\ wres.pos > conns[c].subAt)

(***************************************************************************)
(* SpecAdd: add and Attach::create, from the hub's construction            *)
(***************************************************************************)
NextAdd ==
    \/ \E p \in Paths, u \in Umasks, fail \in AddOutcomes :
          Len(adds) < MaxAdds /\ Add(1, p, u, fail)
    \/ \E e \in SockIds, ok \in BOOLEAN : StartListener(e, ok)
    \/ \E e \in SockIds, u \in Users :
          Len(conns) < MaxAddConns /\ ClientConnect(e, u)
    \/ \E e \in SockIds : Accept(e)
    \/ \E e \in SockIds : AcceptSubscribe(e)
    \/ \E e \in SockIds : AcceptError(e)
    \/ Cancel

SpecAdd == Init /\ [][NextAdd]_vars

\* C10 as stated: the socket file of every listening endpoint has mode 0700.
C10_SocketModeOwnerOnly ==
    \A e \in SockIds :
        socks[e].st = "listening" => fs[socks[e].path] = MODE_0700

\* the add calls that returned Ok
OkAdds == {i \in DOMAIN adds : adds[i].res = "ok"}

\* C11 as stated: an add that returned an error has left nothing behind:
\* every socket fd there has been belongs to an add that returned Ok, and is
\* listening unless its accept task has closed it, and every socket file was
\* created by such an add.
C11_FailedAddLeavesNothing ==
    /\ Len(socks) = Cardinality(OkAdds)
    /\ \A e \in SockIds : socks[e].st \in {"listening", "closed"}
    /\ \A p \in Paths :
          fs[p] # NoFile => \E i \in OkAdds : adds[i].path = p

(***************************************************************************)
(* SpecIn: the inbound side.  One endpoint, the clients' datagrams, the    *)
(* read loops, read on the hub and its clones.                             *)
(***************************************************************************)
\* datagrams of a client: empty, a byte and its terminating zero, a full
\* buffer without a zero
Datagrams(sz) == {<<>>, NonZero(1, 5) \o <<0>>, NonZero(sz, 1)}

InitIn == InitListening(<<"a.sock">>)

InInputs == Len(conns) + nsent + Len(hubs) - 1

NextIn ==
    \/ \E h \in HubIds : InInputs < MaxInInputs /\ HubClone(h)
    \/ \E h \in HubIds : HubDrop(h)
    \/ InInputs < MaxInInputs /\ ClientConnect(1, "owner")
    \/ Accept(1)
    \/ AcceptSubscribe(1)
    \/ \E c \in ConnIds, d \in Datagrams(FrameSize) :
          InInputs < MaxInInputs /\ ClientSend(c, d)
    \/ \E c \in ConnIds : ClientClose(c)
    \/ \E c \in ConnIds : ReadData(c, FrameSize)
    \/ \E c \in ConnIds : ReadEof(c)
    \/ \E c \in ConnIds, err \in {"EIO", "EAGAIN"} : ReadError(c, err)
    \/ \E c \in ConnIds : ReadCancelled(c)
    \/ \E h \in HubIds : HubRead(h)
    \/ Cancel

SpecIn == InitIn /\ [][NextIn]_vars

\* C3 as amended: read on a live handle fails only when its subscription is
\* more than the channel's capacity behind (the receive reports the lag);
\* otherwise it returns the oldest value it has not yet returned.
C3_ReadFailsOnlyOnLag ==
    \A h \in HubIds :
        hubs[h].alive =>
            /\ hubs[h].last.kind = "err" => hubs[h].last.behind > Capacity
            /\ hubs[h].last.kind = "ok" =>
                  /\ hubs[h].last.behind <= Capacity
                  /\ hubs[h].last.val = inLog[hubs[h].last.pos].buf

\* read loops had published more than the capacity before a live handle read
C3_Witness ==
    \E h \in HubIds :
        /\ hubs[h].alive /\ hubs[h].last.kind = "err"
        /\ Len(inLog) > Capacity

\* C3 as stated: read on a live handle never returns an error.
C3_ReadNeverFailsWhileAlive ==
    \A h \in HubIds : hubs[h].alive => hubs[h].last.kind # "err"

(***************************************************************************)
(* SpecRead: the read loops of two accepted connections under every read   *)
(* outcome; the clients send and go away, the hub handle may be dropped,   *)
(* the token may be cancelled.                                             *)
(***************************************************************************)
InitRead == InitAttachedTwo(<<"a.sock">>)

NextRead ==
    \/ \E c \in ConnIds, d \in Datagrams(FrameSize) :
          nsent < MaxReadSends /\ ClientSend(c, d)
    \/ \E c \in ConnIds : ClientClose(c)
    \/ \E c \in ConnIds : ReadData(c, FrameSize)
    \/ \E c \in ConnIds : ReadEof(c)
    \/ \E c \in ConnIds, err \in ReadErrors : ReadError(c, err)
    \/ \E c \in ConnIds : ReadCancelled(c)
    \/ HubDrop(1)
    \/ Cancel

SpecRead == InitRead /\ [][NextRead]_vars

\* the read loop of c has read an error, a datagram of no bytes or the end
\* of the stream in this step, and the error was not one of `ending`
QuietRead(c, ending) ==
    /\ RlAlive(c)
    /\ \/ conns'[c].rerr # conns[c].rerr /\ conns'[c].rerr \notin ending
       \/ /\ Len(conns'[c].c2s) < Len(conns[c].c2s)
          /\ Head(conns[c].c2s) = <<>>

\* the read loops that a read error has ended, ended on an error of `ending`,
\* cleanly on EIO and with an error otherwise, and a read error outside
\* `ending`, a datagram of no bytes and the end of the stream publish nothing
\* and leave the loop running
EndedOnlyOn(ending) ==
    \A c \in ConnIds :
        /\ conns[c].rl \in {"done_eio", "fatal_ebadfd", "fatal_nocode"}
              => conns[c].rerr \in ending
        /\ conns[c].rerr = "EIO" => conns[c].rl = "done_eio"
        /\ conns[c].rerr \in ending \ {"EIO"} => conns[c].rl \in FatalStates

QuietReadsGoOn(ending) ==
    \A c \in ConnIds : QuietRead(c, ending) => (inLog' = inLog /\ RlAlive(c)')

InitLoops == InitAttached(<<"a.sock">>)

LoopMsgs == wres.n + InFlight + nsent

NextLoops ==
    \/ \E c \in ConnIds :
          LoopMsgs < MaxLoopMsgs /\ ClientSend(c, NonZero(1, 5) \o <<0>>)
    \/ \E c \in ConnIds : ClientClose(c)
    \/ \E c \in ConnIds : ReadData(c, FrameSize)
    \/ \E c \in ConnIds, err \in ReadErrors : ReadError(c, err)
    \/ \E c \in ConnIds : ReadCancelled(c)
    \/ \E m \in WriteInputs(FrameSize) :
          LoopMsgs < MaxLoopMsgs /\ WriteCheck(1, m.pipe, m.buf)
    \/ WriteSend(1)
    \/ \E c \in ConnIds, panics \in BOOLEAN : WriteRecv(c, FrameSize, panics)
    \/ \E c \in ConnIds, out \in WriteOutcomes : WriteFrame(c, out)
    \/ \E c \in ConnIds, out \in WriteOutcomes : WriteCancelled(c, out, FrameSize)
    \/ Cancel

SpecLoops == InitLoops /\ [][NextLoops]_vars

AllZero(f) == \A i \in DOMAIN f : f[i] = 0

\* the all-zero frames of full size the client of c has received
DoneFrames(c) ==
    {i \in 1..Len(conns[c].recvd) :
        Len(conns[c].recvd[i]) = FrameSize /\ AllZero(conns[c].recvd[i])}

\* the write loop of c has attempted the Done frame if and only if it left
\* through the cancellation branch, only an error other than WouldBlock and
\* BrokenPipe on that attempt is fatal, and the client has the Done frame,
\* once and last, exactly when the attempt returned Ok
DoneOnlyIfWritten(c) ==
    /\ conns[c].bye # "none" <=> conns[c].wl \in {"done", "fatal_done"}
    /\ conns[c].bye = "Other" <=> conns[c].wl = "fatal_done"
    /\ DoneFrames(c) = IF conns[c].bye = "Ok" THEN {Len(conns[c].recvd)} ELSE {}

\* C4 as amended: a write loop that leaves through the cancellation branch
\* attempts the Done frame exactly once, and its client receives exactly one
\* Done frame, as the last frame, if that attempt returned Ok and none
\* otherwise; a write loop that has not left through that branch has sent none.
C4_DoneIsBestEffort == \A c \in ConnIds : DoneOnlyIfWritten(c)

\* a write loop left through the cancellation branch after data frames and
\* its client received the Done frame last
C4_Witness ==
    \E c \in ConnIds :
        /\ token /\ conns[c].wl = "done" /\ conns[c].bye = "Ok"
        /\ Len(conns[c].recvd) >= 2
        /\ DoneFrames(c) = {Len(conns[c].recvd)}

\* C4 as stated: a write loop that has ended after cancellation without an
\* earlier fatal write error has delivered exactly one Done frame.
C4_DoneAlwaysReceived ==
    \A c \in ConnIds :
        (token /\ conns[c].wl \in {"done", "fatal_done"}) =>
            Cardinality(DoneFrames(c)) = 1

\* what a step of the write loop of c changes
WlState(c) == <<conns[c].wl, conns[c].idx, conns[c].next, conns[c].recvd,
                conns[c].dropped>>

\* C5 as stated: once the token is cancelled, the next step a loop takes
\* (the write loop receiving a buffer or writing a frame, the read loop
\* reading a datagram or an error) is its exit.
C5_ExitAtNextSuspension ==
    [][token => \A c \in ConnIds :
          /\ (WlAlive(c) /\ WlState(c)' # WlState(c)) => WlEnded(c)'
          /\ (RlAlive(c) /\ (conns'[c].rl # conns[c].rl
                              \/ Len(conns'[c].c2s) < Len(conns[c].c2s)))
                => RlEnded(c)']_vars

\* the write loop of c writes a frame in this step
WritesFrame(c) == conns[c].wl = "drain" /\ WlState(c)' # WlState(c)

\* C15: while a buffer is drained, WouldBlock on a frame drops that frame
\* only and the loop moves to the next frame of the buffer (to Idle after the
\* last); BrokenPipe abandons the rest of the buffer and the loop is Idle, not
\* failed; any other error ends the loop fatally, and a loop that has ended so
\* writes nothing more and takes no further buffer.
WriteErrorPolicy ==
    \A c \in ConnIds :
        /\ WritesFrame(c) =>
              LET n == Len(conns[c].packets)
                  last == conns[c].idx + 1 = n
                  goesOn == IF last
                            THEN conns'[c].wl = "idle"
                            ELSE /\ conns'[c].wl = "drain"
                                 /\ conns'[c].idx = conns[c].idx + 1
                                 /\ conns'[c].packets = conns[c].packets
              IN  /\ conns'[c].next = conns[c].next
                  /\ conns'[c].wout = "Ok" =>
                        /\ conns'[c].recvd
                              = Append(conns[c].recvd, conns[c].packets[conns[c].idx + 1])
                        /\ goesOn
                  /\ conns'[c].wout = "WouldBlock" =>
                        conns'[c].recvd = conns[c].recvd /\ goesOn
                  /\ conns'[c].wout = "BrokenPipe" =>
                        conns'[c].recvd = conns[c].recvd /\ conns'[c].wl = "idle"
                  /\ conns'[c].wout = "Other" =>
                        conns'[c].recvd = conns[c].recvd
                            /\ conns'[c].wl = "fatal_write"
        /\ conns[c].wl = "fatal_write" => WlState(c)' = WlState(c)

C15_WriteErrorPolicy == [][WriteErrorPolicy]_vars

\* the first frame of a two-frame buffer was dropped on WouldBlock and the
\* second was then written
C15_Witness ==
    \E c \in ConnIds :
        /\ conns[c].wl = "idle" /\ conns[c].wout = "Ok" /\ conns[c].dropped
        /\ conns[c].next = 1 /\ Len(outLog[1].buf) = FrameSize
        /\ conns[c].recvd = <<Packets(outLog[1].pipe, outLog[1].buf, FrameSize)[2]>>

RECURSIVE IsSubseq(_, _)
\* a is b with some elements left out
IsSubseq(a, b) ==
    IF a = <<>> THEN TRUE
    ELSE IF b = <<>> THEN FALSE
    ELSE IF Head(a) = Head(b) THEN IsSubseq(Tail(a), Tail(b))
    ELSE IsSubseq(a, Tail(b))

\* the k-th frame of the buffer buf published for pipe: the tag code, the
\* k-th run of sz - 1 bytes of buf, zeros up to sz bytes
ChunkFrame(pipe, buf, k, sz) ==
    LET x == SubSeq(buf, (k - 1) * (sz - 1) + 1, Min(k * (sz - 1), Len(buf)))
    IN  <<IF pipe = "StdOut" THEN 2 ELSE 3>> \o x
            \o [i \in 1..(sz - 1 - Len(x)) |-> 0]

RECURSIVE PublishedFrames(_, _, _)
\* the frames of the buffers outLog[lo..hi]: buffers in publication order,
\* frames in chunk order
PublishedFrames(lo, hi, sz) ==
    IF lo > hi THEN <<>>
    ELSE PublishedFrames(lo, hi - 1, sz)
            \o [k \in 1..((Len(outLog[hi].buf) + sz - 2) \div (sz - 1)) |->
                   ChunkFrame(outLog[hi].pipe, outLog[hi].buf, k, sz)]

\* the data frames the client of c has received: all but the Done frame
DataFrames(c) ==
    IF conns[c].bye = "Ok"
    THEN SubSeq(conns[c].recvd, 1, Len(conns[c].recvd) - 1)
    ELSE conns[c].recvd

\* C16: the data frames a client has received are, in order, some of the
\* frames of the buffers published since its write loop subscribed, buffers in
\* publication order and frames in chunk order: frames are dropped, never
\* reordered or duplicated.
C16_FramesInOrder ==
    \A c \in ConnIds :
        IsSubseq(DataFrames(c) \o Rest(c),
                 PublishedFrames(conns[c].subAt + 1, conns[c].next, FrameSize))

\* a client has received frames of two buffers, one frame was dropped
C16_Witness ==
    \E c \in ConnIds :
        /\ conns[c].next = 2 /\ conns[c].wl = "idle" /\ conns[c].dropped
        /\ Len(DataFrames(c)) >= 2
        /\ DataFrames(c)[1] \in {Packets(outLog[1].pipe, outLog[1].buf, FrameSize)[j] :
                                    j \in 1..Len(Packets(outLog[1].pipe, outLog[1].buf, FrameSize))}
        /\ DataFrames(c)[Len(DataFrames(c))]
              = Packets(outLog[2].pipe, outLog[2].buf, FrameSize)[
                    Len(Packets(outLog[2].pipe, outLog[2].buf, FrameSize))]

(***************************************************************************)
(* SpecFault: two accepted connections and more that may connect; a read   *)
(* may fail with EBADF and a frame write with an error that is fatal.      *)
(***************************************************************************)
InitFault == InitAttachedTwo(<<"a.sock">>)

FaultInputs == Len(conns) - 2 + wres.n + InFlight + nsent

NextFault ==
    \/ FaultInputs < MaxFaultInputs /\ ClientConnect(1, "owner")
    \/ Accept(1)
    \/ AcceptSubscribe(1)
    \/ \E c \in ConnIds :
          FaultInputs < MaxFaultInputs /\ ClientSend(c, NonZero(1, 5) \o <<0>>)
    \/ \E c \in ConnIds : ReadData(c, FrameSize)
    \/ \E c \in ConnIds : ReadError(c, "EBADF")
    \/ \E m \in WriteInputs(FrameSize) :
          FaultInputs < MaxFaultInputs /\ WriteCheck(1, m.pipe, m.buf)
    \/ WriteSend(1)
    \/ \E c \in ConnIds, panics \in BOOLEAN : WriteRecv(c, FrameSize, panics)
    \/ \E c \in ConnIds, out \in {"Ok", "Other"} : WriteFrame(c, out)

SpecFault == InitFault /\ [][NextFault]_vars

\* a loop of connection c ends with an error in this step
FailsNow(c) ==
    \/ conns[c].wl \notin FatalStates /\ conns'[c].wl \in FatalStates
    \/ conns[c].rl \notin FatalStates /\ conns'[c].rl \in FatalStates

\* some loop of connection c has ended with an error
Failed(c) == conns[c].wl \in FatalStates \/ conns[c].rl \in FatalStates

\* C12: a step in which a loop of c ends with an error changes nothing but
\* that loop: not the accept loop, not the channels, not the hub, not
\* another connection, and the sibling loop of c keeps its state.
FaultStepIsolated ==
    \A c \in ConnIds :
        FailsNow(c) =>
            /\ UNCHANGED <<cap, token, fs, socks, outLog, inLog, hubs>>
            /\ \A d \in ConnIds \ {c} : conns'[d] = conns[d]
            /\ conns[c].wl = conns'[c].wl \/ conns[c].rl = conns'[c].rl
            /\ conns[c].wl = conns'[c].wl =>
                  /\ conns'[c].recvd = conns[c].recvd
                  /\ conns'[c].next = conns[c].next
            /\ conns'[c].cli = conns[c].cli

\* C12: a write call that finishes after a loop of another connection has
\* ended with an error succeeds for, and is published to, every write loop
\* that was subscribed and still runs, and each such loop's client has the
\* frames of what the loop took, in order.
OthersStillServed ==
    \A c \in ConnIds, d \in ConnIds :
        (c # d /\ Failed(c) /\ WlAlive(d)) =>
            /\ (wres.res # "none" /\ d \in wres.subs) =>
                  (wres.res = "ok" /\ wres.pos > conns[d].subAt)
            /\ ~conns[d].dropped =>
                  conns[d].recvd \o Rest(d)
                      = FramesOf(conns[d].subAt + 1, conns[d].next, FrameSize)

\* C12: per-connection fault isolation.
C12_FaultIsolation == [][FaultStepIsolated]_vars /\ []OthersStillServed

\* one connection's write loop has failed on a frame write, and the other
\* client has since received all frames of a write
C12_Witness ==
    /\ conns[1].wl = "fatal_write" /\ conns[2].wl = "idle"
    /\ wres.res = "ok" /\ 2 \in wres.subs
    /\ conns[2].next = wres.pos /\ conns[2].recvd # <<>>
    /\ ~conns[2].dropped

(***************************************************************************)
(* SpecClone: the hub and its clones, with two accepted connections: the   *)
(* clients send, every handle reads and writes.                            *)
(***************************************************************************)
InitClone == InitAttachedTwo(<<"a.sock">>)

CloneMsgs == Len(hubs) - 1 + nsent

NextClone ==
    \/ \E h \in HubIds : CloneMsgs < MaxCloneMsgs /\ HubClone(h)
    \/ CloneMsgs < MaxCloneMsgs /\ ClientSend(1, NonZero(1, 5) \o <<0>>)
    \/ ReadData(1, FrameSize)
    \/ \E h \in HubIds : HubRead(h)
    \/ \E h \in HubIds :
          wres.n + InFlight < MaxCloneWrites /\ WriteCheck(h, "StdOut", NonZero(1, 7))
    \/ \E h \in HubIds : WriteSend(h)
    \/ \E c \in ConnIds : WriteRecv(c, FrameSize, FALSE)
    \/ \E c \in ConnIds, out \in {"Ok", "WouldBlock", "Other"} : WriteFrame(c, out)

SpecClone == InitClone /\ [][NextClone]_vars

\* C13: a handle whose reads have reported no lag has been returned every
\* inbound message from the first one published after its subscription was
\* made (for a clone: after the clone was made) up to its cursor, each once
\* and in publication order, with the published bytes; and a write that
\* succeeded through any handle is in the one outbound channel, framed for
\* every write loop that was subscribed at the call and has taken it.
C13_CloneSeesAll ==
    /\ \A h \in HubIds :
          /\ ~hubs[h].lagged =>
                /\ hubs[h].born <= hubs[h].next /\ hubs[h].next <= Len(inLog)
                /\ hubs[h].got
                      = [i \in 1..(hubs[h].next - hubs[h].born) |-> hubs[h].born + i]
          /\ hubs[h].last.kind = "ok" =>
                hubs[h].last.val = inLog[hubs[h].last.pos].buf
    /\ (wres.res = "ok" /\ wres.cntCheck > 0) =>
          /\ wres.pos \in 1..Len(outLog)
          /\ wres.subs \subseteq {c \in ConnIds : conns[c].subAt < wres.pos}
          /\ {c \in ConnIds : conns[c].subAt < wres.pos /\ WlAlive(c)}
                \subseteq wres.subs
          /\ \A c \in wres.subs :
                (WlAlive(c) /\ conns[c].next >= wres.pos /\ ~conns[c].dropped) =>
                    conns[c].recvd \o Rest(c)
                        = FramesOf(conns[c].subAt + 1, conns[c].next, FrameSize)

\* a clone made after the first message has, like the original, been
\* returned the second message, and a write through the clone has reached
\* both clients
C13_Witness ==
    /\ Len(hubs) >= 2 /\ hubs[2].born = 1
    /\ hubs[1].got = <<1, 2>> /\ hubs[2].got = <<2>>
    /\ wres.res = "ok" /\ wres.hub = 2
    /\ \A c \in {1, 2} : conns[c].wl = "idle" /\ Len(conns[c].recvd) = 1

(***************************************************************************)
(* SpecDone: one accepted connection; buffers of zero bytes are written,   *)
(* the client may go away, the token may be cancelled; every write of the  *)
(* write loop has every outcome.                                           *)
(***************************************************************************)
DoneInputs ==
    {[pipe |-> "StdOut", buf |-> Zeros(1)],
     [pipe |-> "StdErr", buf |-> Zeros(FrameSize)]}

NextDone ==
    \/ \E m \in DoneInputs :
          wres.n + InFlight < MaxDoneWrites /\ WriteCheck(1, m.pipe, m.buf)
    \/ WriteSend(1)
    \/ \E c \in ConnIds : ClientClose(c)
    \/ \E c \in ConnIds : WriteRecv(c, FrameSize, FALSE)
    \/ \E c \in ConnIds, out \in WriteOutcomes : WriteFrame(c, out)
    \/ \E c \in ConnIds, out \in WriteOutcomes : WriteCancelled(c, out, FrameSize)
    \/ Cancel

SpecDone == InitLoops /\ [][NextDone]_vars

\* the write of the Done frame is attempted with no frame of a received
\* buffer left to write, and after it the write loop does nothing more
DoneEndsTheLoop ==
    \A c \in ConnIds :
        /\ (conns[c].bye = "none" /\ conns'[c].bye # "none") =>
              (Rest(c) = <<>> /\ conns'[c].recvd \in {conns[c].recvd,
                                     Append(conns[c].recvd, Zeros(FrameSize))})
        /\ conns[c].bye # "none" =>
              (conns'[c].bye = conns[c].bye /\ UNCHANGED WlState(c))

\* every data frame, written or still to be written, is of full size, starts
\* with 2 or 3 and so differs from the Done frame
DataFramesTagged ==
    \A c \in ConnIds :
        \A i \in DOMAIN (DataFrames(c) \o Rest(c)) :
            LET f == (DataFrames(c) \o Rest(c))[i]
            IN  /\ Len(f) = FrameSize
                /\ f[1] \in {2, 3}
                /\ ~AllZero(f)

\* C18: the Done frame is the last frame a write loop writes: it is written
\* with no frame of a buffer pending, at most once, and no data frame follows
\* it; every data frame has byte 0 in {2, 3}, so none equals the Done frame.
C18_DoneIsLastAndDistinct == [][DoneEndsTheLoop]_vars /\ []DataFramesTagged

\* a client has received the two frames of a buffer of zeros, the second
\* all zero but for its byte 0, and then the Done frame
C18_Witness ==
    \E c \in ConnIds :
        /\ conns[c].bye = "Ok" /\ Len(conns[c].recvd) = 3
        /\ conns[c].recvd[1] = <<STDERR_CODE>> \o Zeros(FrameSize - 1)
        /\ conns[c].recvd[2][1] = STDERR_CODE /\ AllZero(Tail(conns[c].recvd[2]))
        /\ AllZero(conns[c].recvd[3])

(***************************************************************************)
(* SpecGone: one accepted connection whose client may go away; buffers,    *)
(* the empty one among them, are written under either setting of the       *)
(* build's overflow checks, and the token may be cancelled.                *)
(***************************************************************************)
NextGone ==
    \/ \E c \in ConnIds : ClientClose(c)
    \/ \E c \in ConnIds : ReadEof(c)
    \/ \E c \in ConnIds : ReadCancelled(c)
    \/ \E m \in GoneInputs :
          wres.n + InFlight < MaxGoneWrites /\ WriteCheck(1, m.pipe, m.buf)
    \/ WriteSend(1)
    \/ \E c \in ConnIds, panics \in BOOLEAN : WriteRecv(c, FrameSize, panics)
    \/ \E c \in ConnIds, out \in WriteOutcomes : WriteFrame(c, out)
    \/ \E c \in ConnIds, out \in WriteOutcomes : WriteCancelled(c, out, FrameSize)
    \/ Cancel

SpecGone == InitLoops /\ [][NextGone]_vars

\* the client's going away, a read of 0 bytes and a write that returns
\* BrokenPipe each leave both loops of the connection alive
DisconnectEndsNoLoop ==
    \A c \in ConnIds :
        (\/ conns[c].cli = "open" /\ conns'[c].cli = "closed"
         \/ conns'[c].rerr = "eof" /\ conns[c].rerr # "eof"
         \/ WritesFrame(c) /\ conns'[c].wout = "BrokenPipe")
        => /\ RlAlive(c) => RlAlive(c)'
           /\ WlAlive(c) => WlAlive(c)'

\* a write call that completes while a write loop is alive publishes its
\* buffer, whether the client of that loop is still there or not
LiveLoopIsPublishedTo ==
    (wres'.n = wres.n + 1 /\ \E c \in ConnIds : WlAlive(c))
        => (wres'.res = "ok" /\ Len(outLog') = Len(outLog) + 1)

\* a write loop has ended only through the cancellation branch, after the
\* token was cancelled, or on a lag error, or on a write error other than
\* WouldBlock and BrokenPipe, or in the panic of packets.len() - 1 on an
\* empty buffer it had taken, in a build with overflow checks
EndedByTokenOrFatally ==
    \A c \in ConnIds :
        WlEnded(c) =>
            \/ token /\ conns[c].wl \in {"done", "fatal_done"}
            \/ conns[c].wl = "fatal_recv"
            \/ conns[c].wl = "fatal_write" /\ conns[c].wout = "Other"
            \/ /\ conns[c].wl = "panic"
               /\ conns[c].next >= 1 /\ outLog[conns[c].next].buf = <<>>

\* C19 as amended: a client's going away ends neither of its loops: reads of
\* 0 bytes and writes that return BrokenPipe leave both alive, the write
\* loop's subscription stays counted until that loop ends, on cancellation or
\* on a fatal error of its own (a lag error on receive, a write error other
\* than WouldBlock and BrokenPipe, the panic on an empty buffer in a build
\* with overflow checks), and while it is counted write keeps publishing.
C19_DisconnectFreesNothing ==
    /\ [][DisconnectEndsNoLoop /\ LiveLoopIsPublishedTo]_vars
    /\ []EndedByTokenOrFatally

\* the client is gone, its read loop has read 0 bytes and its write loop has
\* had BrokenPipe, both loops are alive and a later buffer was published
C19_Witness ==
    \E c \in ConnIds :
        /\ ~token /\ conns[c].cli = "closed"
        /\ conns[c].rerr = "eof" /\ conns[c].wout = "BrokenPipe"
        /\ RlAlive(c) /\ WlAlive(c)
        /\ wres.res = "ok" /\ wres.pos = Len(outLog)
        /\ conns[c].next < Len(outLog)

\* C19 as stated: once a connection has been accepted, the number of
\* outbound subscribers is not zero before the token is cancelled.
C19_SubscribedUntilCancelled ==
    (Len(conns) > 0 /\ ~token) => receiver_count > 0

(***************************************************************************)
(* SpecLag: two accepted connections on channels asked to hold             *)
(* LagChannelCapacity values; write calls, and the two write loops, each   *)
(* at its own pace.                                                        *)
(***************************************************************************)
InitLag == InitChan(<<"a.sock">>, InitAttachedTwoConns, LagChannelCapacity)

NextLag ==
    \/ wres.n + InFlight < MaxLagWrites /\ WriteCheck(1, "StdOut", NonZero(1, 7))
    \/ WriteSend(1)
    \/ \E c \in ConnIds : WriteRecv(c, FrameSize, FALSE)
    \/ \E c \in ConnIds, out \in {"Ok", "WouldBlock", "Other"} : WriteFrame(c, out)

SpecLag == InitLag /\ [][NextLag]_vars

\* the write loop of c takes its next receive in this step
Receives(c) == conns[c].wl = "idle" /\ WlState(c)' # WlState(c)

\* a receive fails exactly when the loop is more than `window` values behind
LoudBeyond(window) ==
    \A c \in ConnIds :
        Receives(c) =>
            (conns'[c].wl = "fatal_recv" <=> Len(outLog) - conns[c].next > window)

\* a write loop none of whose frame writes has failed has written, in order
\* and without a gap, the frames of the buffers from its subscription on:
\* all it took while it runs, and no frame after the first buffer it missed
\* once its receive has failed
NeverSkips ==
    \A c \in ConnIds :
      ~conns[c].dropped =>
        /\ WlAlive(c) =>
              conns[c].recvd \o Rest(c)
                  = PublishedFrames(conns[c].subAt + 1, conns[c].next, FrameSize)
        /\ conns[c].wl = "fatal_recv" =>
              /\ conns[c].subAt + Len(conns[c].recvd) < conns[c].next
              /\ conns[c].recvd
                    = PublishedFrames(conns[c].subAt + 1,
                                      conns[c].subAt + Len(conns[c].recvd), FrameSize)

\* a write call that has passed its check can always complete its send
WriteNeverBlocks == hubs[1].pc = "send" => ENABLED WriteSend(1)

\* C17 as amended: a write loop more than the channel's real capacity (the
\* capacity asked for, rounded up to a power of two) behind gets an error on
\* its next receive and ends fatally, and one that is not does not; no write
\* loop writes a buffer published after one it missed; write does not block;
\* the other write loops are written every buffer.
C17_LagIsLoud ==
    /\ [][LoudBeyond(next_power_of_two(LagChannelCapacity))]_vars
    /\ [](NeverSkips /\ WriteNeverBlocks)

\* one write loop has failed on its receive, having written nothing, while
\* the other has written every buffer
C17_Witness ==
    /\ conns[1].wl = "fatal_recv" /\ conns[1].recvd = <<>>
    /\ conns[2].wl = "idle" /\ conns[2].next = Len(outLog)
    /\ Len(conns[2].recvd) = Len(outLog)
    /\ Len(outLog) > next_power_of_two(LagChannelCapacity)

\* C17 as stated: a write loop more than the capacity asked of the channel
\* behind gets an error on its next receive and ends fatally.
C17_LoudBeyondAskedCapacity == [][LoudBeyond(LagChannelCapacity)]_vars

(***************************************************************************)
(* SpecExactOut, SpecExactIn: framing and truncation at the source's       *)
(* buffer size, for one accepted connection.                               *)
(***************************************************************************)
\* len bytes 1, 2, .., 255, 0, 1, ..
Ramp(len) == [i \in 1..len |-> i % 256]

\* payloads around the one-frame and two-frame limits
ExactPayloads ==
    {Ramp(len) : len \in {0, 1, PACKET_BUF_SIZE - 1, PACKET_BUF_SIZE,
                          2 * (PACKET_BUF_SIZE - 1), 2 * (PACKET_BUF_SIZE - 1) + 1}}

\* datagrams: b and a zero byte for b of 0, 1, 8190 and 8191 non-zero bytes;
\* a full buffer without a zero; bytes after the first zero
ExactDatagrams ==
    {NonZero(len, 1) \o <<0>> : len \in {0, 1, PACKET_BUF_SIZE - 2, PACKET_BUF_SIZE - 1}}
        \cup {NonZero(PACKET_BUF_SIZE, 1), <<5, 0, 6, 0>>}

InitExact == InitAttached(<<"a.sock">>)

\* outbound: write on the hub, the write loop of the connection
NextExactOut ==
    \/ \E pipe \in Pipes, buf \in ExactPayloads :
          wres.n + InFlight < MaxExactWrites /\ WriteCheck(1, pipe, buf)
    \/ WriteSend(1)
    \/ \E panics \in BOOLEAN : WriteRecv(1, PACKET_BUF_SIZE, panics)
    \/ \E out \in {"Ok", "WouldBlock", "Other"} : WriteFrame(1, out)

SpecExactOut == InitExact /\ [][NextExactOut]_vars

\* inbound: the client sends, the read loop of the connection, read on the hub
NextExactIn ==
    \/ \E d \in ExactDatagrams : nsent < MaxExactSends /\ ClientSend(1, d)
    \/ ReadData(1, PACKET_BUF_SIZE)
    \/ HubRead(1)

SpecExactIn == InitExact /\ [][NextExactIn]_vars

NoZero(b) == \A i \in DOMAIN b : b[i] # 0

\* d is some b without a zero byte, of at most PACKET_BUF_SIZE - 1 bytes,
\* followed by one zero byte
Terminated(d) ==
    /\ Len(d) >= 1 /\ Len(d) <= PACKET_BUF_SIZE
    /\ d[Len(d)] = 0
    /\ NoZero(SubSeq(d, 1, Len(d) - 1))

\* C7: a datagram b \o <<0>>, with b free of zeros and at most 8191 bytes
\* long, is published by the read loop, and returned by read, as exactly b.
C7_ReadReturnsPayload ==
    /\ \A i \in 1..Len(inLog) :
          Terminated(inLog[i].src) =>
              inLog[i].buf = SubSeq(inLog[i].src, 1, Len(inLog[i].src) - 1)
    /\ (hubs[1].last.kind = "ok" /\ Terminated(inLog[hubs[1].last.pos].src)) =>
          hubs[1].last.val
              = SubSeq(inLog[hubs[1].last.pos].src, 1,
                       Len(inLog[hubs[1].last.pos].src) - 1)

\* read has returned the 8191 bytes of a datagram that filled the buffer
C7_Witness ==
    /\ hubs[1].last.kind = "ok"
    /\ Terminated(inLog[hubs[1].last.pos].src)
    /\ Len(hubs[1].last.val) = PACKET_BUF_SIZE - 1

CeilDiv(a, b) == (a + b - 1) \div b

\* the number of frames the claims give a payload of len bytes
FrameCount(len) == CeilDiv(len, PACKET_BUF_SIZE - 1)

RECURSIVE FramesBefore(_)
\* the number of frames the write loop built for outLog[1..j-1]
FramesBefore(j) ==
    IF j <= 1 THEN 0
    ELSE FramesBefore(j - 1) + Len(Packets(outLog[j - 1].pipe, outLog[j - 1].buf,
                                           PACKET_BUF_SIZE))

\* the write loop of the connection has written every frame of everything
\* it took from its subscription, each write returning Ok
Drained == conns[1].wl \in {"idle", "panic"} /\ ~conns[1].dropped

\* frame f carries tag code t, then the bytes x, then zeros
IsFrame(f, t, x) ==
    /\ Len(f) = PACKET_BUF_SIZE
    /\ f[1] = t
    /\ \A i \in 2..PACKET_BUF_SIZE :
          f[i] = IF i - 1 <= Len(x) THEN x[i - 1] ELSE 0

TagCode(pipe) == IF pipe = "StdOut" THEN 2 ELSE 3

\* C8 as stated: a payload of 0 to 8191 bytes reaches the client as exactly
\* one frame: the tag code, the payload, zeros.
C8_OneFramePerShortPayload ==
    Drained =>
        \A j \in 1..conns[1].next :
            Len(outLog[j].buf) <= PACKET_BUF_SIZE - 1 =>
                /\ conns[1].wl = "idle"
                /\ Len(conns[1].recvd) >= FramesBefore(j) + 1
                /\ FramesBefore(j + 1) = FramesBefore(j) + 1
                /\ IsFrame(conns[1].recvd[FramesBefore(j) + 1],
                           TagCode(outLog[j].pipe), outLog[j].buf)

\* C20 as stated: for every buffer the write loop has received, an empty one
\* included, at least one frame is built, so packets.len() - 1 does not go
\* below zero and the loop does not abort.
C20_FrameCountNeverUnderflows ==
    /\ \A j \in 1..conns[1].next :
          Len(Packets(outLog[j].pipe, outLog[j].buf, PACKET_BUF_SIZE)) - 1 >= 0
    /\ conns[1].wl # "panic"

\* C9: a payload of more than 8191 bytes reaches the client, when every
\* write succeeds, as ceil(len / 8191) frames, each the tag code, the next
\* 8191 bytes of the payload (fewer in the last), zeros.
C9_LongPayloadFrames ==
    Drained =>
        \A j \in 1..conns[1].next :
            Len(outLog[j].buf) > PACKET_BUF_SIZE - 1 =>
                LET p == outLog[j].buf
                    n == FrameCount(Len(p))
                    off == FramesBefore(j)
                IN  /\ FramesBefore(j + 1) = off + n
                    /\ Len(conns[1].recvd) >= off + n
                    /\ \A k \in 1..n :
                          IsFrame(conns[1].recvd[off + k], TagCode(outLog[j].pipe),
                                  SubSeq(p, (k - 1) * (PACKET_BUF_SIZE - 1) + 1,
                                         Min(k * (PACKET_BUF_SIZE - 1), Len(p))))

\* the client has received the three frames of a payload of 2 * 8191 + 1 bytes
C9_Witness ==
    /\ Drained /\ conns[1].next = 1
    /\ Len(outLog[1].buf) = 2 * (PACKET_BUF_SIZE - 1) + 1
    /\ Len(conns[1].recvd) = 3

====
